---------------------------- MODULE Spec2Model ----------------------------
(***************************************************************************)
(* Model of src/core/parser/duckpgq_parser.cpp: the rewrite of graph-match *)
(* table functions (duckpgq_find_match_function), the walk of a select     *)
(* statement (duckpgq_find_select_statement), the show/describe handler    *)
(* (duckpgq_parse_showref) and the statement dispatcher                    *)
(* (duckpgq_handle_statement, entered through duckpgq_plan), all acting on *)
(* the session's DuckPGQState (match_index, transform_expression).         *)
(*                                                                         *)
(* Trees are records tagged by the enum the code switches on ("type").     *)
(* A call that throws keeps every mutation made before the throw: each     *)
(* operator returns the tree and the state as they are when it returns or  *)
(* throws, together with the error ("none" on a normal return).            *)
(***************************************************************************)
EXTENDS Integers, Sequences, FiniteSets, TLC

\* Largest value the model lets match_index reach (the code's counter is an
\* int32 that is never reset; the guards of the actions cap it here).
MaxMatchIndex == 3

VARIABLES
    match_index,           \* DuckPGQState::match_index
    transform_expression,  \* DuckPGQState::transform_expression (index -> expression)
    call,                  \* the function the last step entered
    arg,                   \* the tree that call was given
    tree,                  \* the same tree after the call (mutated in place)
    outcome,               \* how the call ended: error, error_arg, result
    pre                    \* match_index and transform_expression before the call

vars == <<match_index, transform_expression, call, arg, tree, outcome, pre>>

----------------------------------------------------------------------------
\* Expressions

MatchExpression(alias, pg_name) ==
    [class |-> "MATCH", alias |-> alias, pg_name |-> pg_name]

ConstantExpression(value) == [class |-> "CONSTANT", value |-> value]

\* What std::move leaves in a unique_ptr slot.
MovedFrom == [class |-> "NULL"]

FunctionExpression(function_name, children) ==
    [class |-> "FUNCTION", function_name |-> function_name, children |-> children]

----------------------------------------------------------------------------
\* Table references

TableFunctionRef(function) ==
    [type |-> "TABLE_FUNCTION", alias |-> "", function |-> function]

SubqueryRef(subquery) == [type |-> "SUBQUERY", subquery |-> subquery]

JoinRef(left, right) == [type |-> "JOIN", left |-> left, right |-> right]

BaseTableRef(table_name) == [type |-> "BASE_TABLE", table_name |-> table_name]

ShowRef(table_name, show_type) ==
    [type |-> "SHOW_REF", table_name |-> table_name, show_type |-> show_type]

\* The reference kinds the switch sends to its throwing default, less SHOW_REF.
OtherRefTypes ==
    {"EXPRESSION_LIST", "CTE", "EMPTY_FROM", "PIVOT", "COLUMN_DATA",
     "DELIM_GET", "BOUND_TABLE_REF", "INVALID"}

OtherRef(type) == [type |-> type]

----------------------------------------------------------------------------
\* Query nodes and statements

SelectNode(cte_map, from_table) ==
    [type |-> "SELECT_NODE", cte_map |-> cte_map, from_table |-> from_table]

CTENode(child) == [type |-> "CTE_NODE", child |-> child]

OtherNode(type) == [type |-> type]

SelectStatement(node) == [type |-> "SELECT_STATEMENT", node |-> node]

\* One entry of a CommonTableExpressionMap (kept in insertion order).
CTE(name, query) == [name |-> name, query |-> query]

NullPtr == [type |-> "NULL"]

CreateStatement(info) == [type |-> "CREATE_STATEMENT", info |-> info]

CreatePropertyGraphInfo == [kind |-> "PROPERTY_GRAPH"]

CreateTableInfo(query) == [kind |-> "TABLE", query |-> query]

CreateViewInfo == [kind |-> "VIEW"]

DropStatement(drop_type) == [type |-> "DROP_STATEMENT", drop_type |-> drop_type]

ExplainStatement(stmt) == [type |-> "EXPLAIN_STATEMENT", stmt |-> stmt]

CopyStatement(select_statement) ==
    [type |-> "COPY_STATEMENT", select_statement |-> select_statement]

InsertStatement(select_statement) ==
    [type |-> "INSERT_STATEMENT", select_statement |-> select_statement]

OtherStatement(type) == [type |-> type]

----------------------------------------------------------------------------
\* Plan results and the way a call ends

\* A default-constructed ParserExtensionPlanResult: no bound function.
EmptyResult ==
    [function |-> "none", parameters |-> <<>>,
     requires_valid_transaction |-> TRUE, return_type |-> "NOTHING"]

PlanResult(function, parameters) ==
    [function |-> function, parameters |-> parameters,
     requires_valid_transaction |-> TRUE, return_type |-> "QUERY_RESULT"]

State(index, expressions) ==
    [match_index |-> index, transform_expression |-> expressions]

Return(t, st, result) ==
    [tree |-> t, st |-> st, error |-> "none", error_arg |-> "", result |-> result]

Throw(t, st, error, error_arg) ==
    [tree |-> t, st |-> st, error |-> error, error_arg |-> error_arg,
     result |-> EmptyResult]

\* The caller's tree around a callee's outcome; the callee's result is kept.
Within(t, r) == [r EXCEPT !.tree = t]

----------------------------------------------------------------------------
\* duckpgq_find_match_function and duckpgq_find_select_statement

RECURSIVE duckpgq_find_match_function(_, _)
RECURSIVE duckpgq_find_select_statement(_, _)
RECURSIVE CteLoop(_, _, _)

\* transform_expression[match_index] = expr: std::map's operator[] inserts the
\* key or overwrites the entry already there.
MapAssign(expressions, index, expr) ==
    [k \in (DOMAIN expressions) \cup {index} |->
        IF k = index THEN expr ELSE expressions[k]]

\* case TABLE_FUNCTION, with the counter left where it was
TableFunctionCaseNoIncrement(table_ref, st) ==
    LET function == table_ref.function
        children == function.children
    IN  IF function.function_name # "duckpgq_match"
        THEN Return(table_ref, st, EmptyResult)
        ELSE LET index == st.match_index
                 st1 == State(st.match_index,
                              MapAssign(st.transform_expression, index, children[1]))
                 moved == [children EXCEPT ![1] = MovedFrom]
                 popped == SubSeq(moved, 1, Len(moved) - 1)
                 pushed == Append(popped, ConstantExpression(index))
             IN  Return([table_ref EXCEPT !.alias = children[1].alias,
                                          !.function.children = pushed],
                        st1, EmptyResult)

\* case TABLE_FUNCTION, with the literal made from the counter after its increment
TableFunctionCaseLiteralAfter(table_ref, st) ==
    LET function == table_ref.function
        children == function.children
    IN  IF function.function_name # "duckpgq_match"
        THEN Return(table_ref, st, EmptyResult)
        ELSE LET index == st.match_index
                 st1 == State(st.match_index + 1,
                              MapAssign(st.transform_expression, index, children[1]))
                 moved == [children EXCEPT ![1] = MovedFrom]
                 popped == SubSeq(moved, 1, Len(moved) - 1)
                 pushed == Append(popped, ConstantExpression(st1.match_index))
             IN  Return([table_ref EXCEPT !.alias = children[1].alias,
                                          !.function.children = pushed],
                        st1, EmptyResult)

\* case TABLE_FUNCTION: a call of any other function is left alone; a call of
\* duckpgq_match takes the alias of its first child, moves that child into
\* transform_expression under the counter's value (post-increment), pops the
\* last child slot and pushes the index as a constant.
\* children[0] on an empty vector fails duckdb::vector's bounds check.
TableFunctionCase(table_ref, st) ==
    LET function == table_ref.function
        children == function.children
    IN  IF function.function_name # "duckpgq_match"
        THEN Return(table_ref, st, EmptyResult)
        ELSE IF Len(children) = 0
        THEN Throw(table_ref, st, "InternalError", "")
        ELSE LET index == st.match_index
                 st1 == State(st.match_index + 1,
                              MapAssign(st.transform_expression, index, children[1]))
                 moved == [children EXCEPT ![1] = MovedFrom]
                 popped == SubSeq(moved, 1, Len(moved) - 1)
                 pushed == Append(popped, ConstantExpression(index))
             IN  Return([table_ref EXCEPT !.alias = children[1].alias,
                                          !.function.children = pushed],
                        st1, EmptyResult)

\* case SUBQUERY: the inner statement is walked and its result dropped.
SubqueryCase(table_ref, st) ==
    LET r == duckpgq_find_select_statement(table_ref.subquery, st)
    IN  [r EXCEPT !.tree = [table_ref EXCEPT !.subquery = r.tree],
                  !.result = EmptyResult]

\* case JOIN, with the right side walked before the left
JoinCaseRightFirst(table_ref, st) ==
    LET r == duckpgq_find_match_function(table_ref.right, st)
        t1 == [table_ref EXCEPT !.right = r.tree]
    IN  IF r.error # "none"
        THEN Within(t1, r)
        ELSE LET l == duckpgq_find_match_function(table_ref.left, r.st)
             IN  Within([t1 EXCEPT !.left = l.tree], l)

\* case JOIN: left, then right; a throw on the left leaves the right unvisited.
JoinCase(table_ref, st) ==
    LET l == duckpgq_find_match_function(table_ref.left, st)
        t1 == [table_ref EXCEPT !.left = l.tree]
    IN  IF l.error # "none"
        THEN Within(t1, l)
        ELSE LET r == duckpgq_find_match_function(table_ref.right, l.st)
             IN  Within([t1 EXCEPT !.right = r.tree], r)

\* case BASE_TABLE, falling into the throwing default
BaseTableCaseThrows(table_ref, st) ==
    Throw(table_ref, st, "UnsupportedConstruct", "")

\* case BASE_TABLE: break.
BaseTableCase(table_ref, st) == Return(table_ref, st, EmptyResult)

\* Every other case and the default: BinderException("MATCH statement is not
\* yet supported in this table reference type").
DefaultCase(table_ref, st) == Throw(table_ref, st, "UnsupportedConstruct", "")

duckpgq_find_match_function(table_ref, st) ==
    CASE table_ref.type = "TABLE_FUNCTION" -> TableFunctionCase(table_ref, st)
      [] table_ref.type = "SUBQUERY" -> SubqueryCase(table_ref, st)
      [] table_ref.type = "JOIN" -> JoinCase(table_ref, st)
      [] table_ref.type = "BASE_TABLE" -> BaseTableCase(table_ref, st)
      [] OTHER -> DefaultCase(table_ref, st)

\* duckpgq_parse_showref: SUMMARY selects the summarize function with the table
\* name as its parameter, DESCRIBE the describe function with none; any other
\* show type throws BinderException("Unknown show type %s found.").
duckpgq_parse_showref(table_ref, st) ==
    IF table_ref.show_type = "SUMMARY"
    THEN Return(table_ref, st,
                PlanResult("SummarizePropertyGraphFunction",
                           <<table_ref.table_name>>))
    ELSE IF table_ref.show_type = "DESCRIBE"
    THEN Return(table_ref, st, PlanResult("DescribePropertyGraphFunction", <<>>))
    ELSE Throw(table_ref, st, "UnrecognizedMode", table_ref.show_type)

\* The loop over cte_map.map, from entry i on. The guard tests the type of the
\* entry's statement (cte->query is a SelectStatement), then the entry's node
\* is cast to SelectNode: QueryNode::Cast throws InternalException when the
\* node is of another type. The entry's own cte_map is not looked at.
CteLoop(cte_map, i, st) ==
    IF i > Len(cte_map)
    THEN Return(cte_map, st, EmptyResult)
    ELSE LET cte == cte_map[i]
         IN  IF cte.query.type # "SELECT_STATEMENT"
             THEN CteLoop(cte_map, i + 1, st)
             ELSE IF cte.query.node.type # "SELECT_NODE"
             THEN Throw(cte_map, st, "InternalError", "")
             ELSE LET r == duckpgq_find_match_function(cte.query.node.from_table, st)
                      m1 == [cte_map EXCEPT ![i].query.node.from_table = r.tree]
                  IN  IF r.error # "none"
                      THEN Within(m1, r)
                      ELSE CteLoop(m1, i + 1, r.st)

\* The CTE loop, then the node's own FROM target (the same statements in the
\* SELECT_NODE and in the CTE_NODE branch).
SelectNodeWalk(node, st) ==
    LET c == CteLoop(node.cte_map, 1, st)
        n1 == [node EXCEPT !.cte_map = c.tree]
    IN  IF c.error # "none"
        THEN Within(n1, c)
        ELSE LET f == duckpgq_find_match_function(node.from_table, c.st)
             IN  Within([n1 EXCEPT !.from_table = f.tree], f)

\* The SELECT_NODE branch, with the SHOW_REF test made after the CTE loop
SelectNodeBranchShowAfterCtes(statement, st) ==
    LET node == statement.node
        c == CteLoop(node.cte_map, 1, st)
        n1 == [node EXCEPT !.cte_map = c.tree]
    IN  IF c.error # "none"
        THEN Within([statement EXCEPT !.node = n1], c)
        ELSE IF node.from_table.type = "SHOW_REF"
        THEN Within([statement EXCEPT !.node = n1],
                    duckpgq_parse_showref(node.from_table, c.st))
        ELSE LET f == duckpgq_find_match_function(node.from_table, c.st)
             IN  [f EXCEPT !.tree = [statement EXCEPT
                                        !.node = [n1 EXCEPT !.from_table = f.tree]],
                           !.result = EmptyResult]

\* The SELECT_NODE branch: a SHOW_REF target goes to duckpgq_parse_showref and
\* its result is returned; otherwise the walk, and an empty result.
SelectNodeBranch(statement, st) ==
    LET node == statement.node
    IN  IF node.from_table.type = "SHOW_REF"
        THEN Within(statement, duckpgq_parse_showref(node.from_table, st))
        ELSE LET w == SelectNodeWalk(node, st)
             IN  [w EXCEPT !.tree = [statement EXCEPT !.node = w.tree],
                           !.result = EmptyResult]

\* The CTE_NODE branch: nothing unless the child is a SELECT_NODE, then the
\* walk of the child.
CteNodeBranch(statement, st) ==
    LET cte_node == statement.node
    IN  IF cte_node.child.type # "SELECT_NODE"
        THEN Return(statement, st, EmptyResult)
        ELSE LET w == SelectNodeWalk(cte_node.child, st)
             IN  [w EXCEPT !.tree = [statement EXCEPT !.node.child = w.tree],
                           !.result = EmptyResult]

duckpgq_find_select_statement(statement, st) ==
    IF statement.node.type = "SELECT_NODE"
    THEN SelectNodeBranch(statement, st)
    ELSE IF statement.node.type = "CTE_NODE"
    THEN CteNodeBranch(statement, st)
    ELSE Return(statement, st, EmptyResult)

----------------------------------------------------------------------------
\* duckpgq_handle_statement

RECURSIVE duckpgq_handle_statement(_, _, _)

\* The outcomes of undefined behaviour the model allows: the process dies, or
\* the walk reads a stray reference and ends in one of its two ways.  None of
\* them is taken to write the session state.
UndefinedOutcomes == {"Crash", "UnsupportedConstruct", "MustUseBindEntryPoint"}

\* The throw that ends the function: Exception(NOT_IMPLEMENTED,
\* StatementTypeToString(statement.type) + "has not been implemented yet ...").
NotImplemented(statement, st) ==
    Throw(statement, st, "NotImplemented", statement.type)

\* SELECT_STATEMENT: the walk; a result with no bound function throws
\* Exception(BINDER, "use duckpgq_bind instead").
SelectCase(statement, st) ==
    LET r == duckpgq_find_select_statement(statement, st)
    IN  IF r.error # "none"
        THEN r
        ELSE IF r.result.function = "none"
        THEN Throw(r.tree, r.st, "MustUseBindEntryPoint", "")
        ELSE r

\* CREATE_STATEMENT, with the embedded query never dispatched
CreateCaseNoRecursion(statement, st, ub) ==
    IF statement.info.kind = "PROPERTY_GRAPH"
    THEN Return(statement, st, PlanResult("CreatePropertyGraphFunction", <<>>))
    ELSE NotImplemented(statement, st)

\* CREATE_STATEMENT: a CreatePropertyGraphInfo selects the create function.
\* Any other info is read as a CreateTableInfo (an unchecked cast: undefined
\* for an info of another class; a null query fails unique_ptr's check) and its
\* query is dispatched; when that returns, its result is dropped and control
\* reaches the throw at the end of the function.
CreateCase(statement, st, ub) ==
    IF statement.info.kind = "PROPERTY_GRAPH"
    THEN Return(statement, st, PlanResult("CreatePropertyGraphFunction", <<>>))
    ELSE IF statement.info.kind # "TABLE"
    THEN Throw(statement, st, ub, "")
    ELSE IF statement.info.query = NullPtr
    THEN Throw(statement, st, "InternalError", "")
    ELSE LET r == duckpgq_handle_statement(statement.info.query, st, ub)
             t1 == [statement EXCEPT !.info.query = r.tree]
         IN  IF r.error # "none"
             THEN Within(t1, r)
             ELSE NotImplemented(t1, r.st)

\* DROP_STATEMENT, with the drop function chosen for property graphs only
DropCaseByTarget(statement, st) ==
    IF statement.drop_type = "PROPERTY_GRAPH"
    THEN Return(statement, st, PlanResult("DropPropertyGraphFunction", <<>>))
    ELSE NotImplemented(statement, st)

\* DROP_STATEMENT: the drop function, whatever is dropped.
DropCase(statement, st) ==
    Return(statement, st, PlanResult("DropPropertyGraphFunction", <<>>))

\* EXPLAIN_STATEMENT: the inner statement is dispatched; when that returns,
\* its result is dropped and control reaches the throw at the end.
ExplainCase(statement, st, ub) ==
    LET r == duckpgq_handle_statement(statement.stmt, st, ub)
        t1 == [statement EXCEPT !.stmt = r.tree]
    IN  IF r.error # "none"
        THEN Within(t1, r)
        ELSE NotImplemented(t1, r.st)

\* COPY_STATEMENT, with the FROM target never walked
CopyCaseNoWalk(statement, st, ub) ==
    Throw(statement, st, "MustUseBindEntryPoint", "")

\* COPY_STATEMENT: select_statement is dynamic_cast to SelectNode and the
\* result dereferenced unchecked (undefined when the source is absent or is not
\* a SelectNode); the FROM target is walked, then
\* Exception(BINDER, "use duckpgq_bind instead").
CopyCase(statement, st, ub) ==
    IF statement.select_statement.type # "SELECT_NODE"
    THEN Throw(statement, st, ub, "")
    ELSE LET r == duckpgq_find_match_function(statement.select_statement.from_table, st)
             t1 == [statement EXCEPT !.select_statement.from_table = r.tree]
         IN  IF r.error # "none"
             THEN [r EXCEPT !.tree = t1, !.result = EmptyResult]
             ELSE Throw(t1, r.st, "MustUseBindEntryPoint", "")

\* INSERT_STATEMENT: the embedded select (a null one fails unique_ptr's check)
\* is dispatched; when that returns, its result is dropped and control reaches
\* the throw at the end.
InsertCase(statement, st, ub) ==
    IF statement.select_statement = NullPtr
    THEN Throw(statement, st, "InternalError", "")
    ELSE LET r == duckpgq_handle_statement(statement.select_statement, st, ub)
             t1 == [statement EXCEPT !.select_statement = r.tree]
         IN  IF r.error # "none"
             THEN Within(t1, r)
             ELSE NotImplemented(t1, r.st)

duckpgq_handle_statement(statement, st, ub) ==
    IF statement.type = "SELECT_STATEMENT" THEN SelectCase(statement, st)
    ELSE IF statement.type = "CREATE_STATEMENT" THEN CreateCase(statement, st, ub)
    ELSE IF statement.type = "DROP_STATEMENT" THEN DropCase(statement, st)
    ELSE IF statement.type = "EXPLAIN_STATEMENT" THEN ExplainCase(statement, st, ub)
    ELSE IF statement.type = "COPY_STATEMENT" THEN CopyCase(statement, st, ub)
    ELSE IF statement.type = "INSERT_STATEMENT" THEN InsertCase(statement, st, ub)
    ELSE NotImplemented(statement, st)

----------------------------------------------------------------------------
\* The trees the steps are given

M1 == MatchExpression("g", "pg1")
M2 == MatchExpression("h", "pg2")

MatchCall(m) == TableFunctionRef(FunctionExpression("duckpgq_match", <<m>>))
OtherCall == TableFunctionRef(FunctionExpression("range", <<ConstantExpression(5)>>))
Base == BaseTableRef("t")
EmptyFrom == OtherRef("EMPTY_FROM")

Plain(cte_map, from_table) == SelectStatement(SelectNode(cte_map, from_table))
SetOp == SelectStatement(OtherNode("SET_OPERATION_NODE"))
RecursiveCte == SelectStatement(OtherNode("RECURSIVE_CTE_NODE"))
NestedCteNode == SelectStatement(CTENode(SelectNode(<<>>, MatchCall(M1))))

ShowTypes == {"SUMMARY", "DESCRIBE", "SHOW_FROM", "SHOW_UNQUALIFIED"}

ShowSelects ==
    {Plain(ctes, ShowRef("pg1", mode)) :
        ctes \in {<<>>, <<CTE("c", Plain(<<>>, MatchCall(M1)))>>},
        mode \in ShowTypes}

JoinRefs ==
    {JoinRef(l, r) : l, r \in {MatchCall(M1), MatchCall(M2), Base, EmptyFrom}}
    \cup {JoinRef(JoinRef(MatchCall(M1), MatchCall(M2)), MatchCall(M1)),
          JoinRef(OtherCall, MatchCall(M2))}

SubqueryRefs ==
    {SubqueryRef(q) :
        q \in {Plain(<<>>, MatchCall(M1)), Plain(<<>>, EmptyFrom), SetOp,
               Plain(<<>>, ShowRef("pg1", "DESCRIBE")),
               Plain(<<CTE("c", Plain(<<>>, MatchCall(M2)))>>, MatchCall(M1))}}

TableRefs ==
    {MatchCall(M1), MatchCall(M2), OtherCall, Base, ShowRef("pg1", "SUMMARY")}
    \cup {OtherRef(k) : k \in OtherRefTypes}
    \cup JoinRefs \cup SubqueryRefs

CteMaps ==
    {<<>>,
     <<CTE("c", Plain(<<>>, MatchCall(M1)))>>,
     <<CTE("c", Plain(<<>>, Base)), CTE("d", Plain(<<>>, MatchCall(M2)))>>,
     <<CTE("c", SetOp)>>,
     <<CTE("c", RecursiveCte)>>,
     <<CTE("c", NestedCteNode)>>,
     <<CTE("c", SetOp), CTE("d", Plain(<<>>, MatchCall(M1)))>>,
     <<CTE("c", Plain(<<>>, MatchCall(M1))), CTE("d", SetOp)>>,
     <<CTE("c", Plain(<<CTE("d", Plain(<<>>, MatchCall(M1)))>>, Base))>>,
     <<CTE("c", Plain(<<>>, EmptyFrom)), CTE("d", Plain(<<>>, MatchCall(M1)))>>}

OuterTargets ==
    {MatchCall(M2), Base, EmptyFrom, JoinRef(MatchCall(M1), MatchCall(M2)),
     JoinRef(MatchCall(M1), EmptyFrom), SubqueryRef(Plain(<<>>, MatchCall(M1)))}

PlainSelects == {Plain(ctes, t) : ctes \in CteMaps, t \in OuterTargets}

CteNodeSelects ==
    {SelectStatement(CTENode(SelectNode(ctes, t))) :
        ctes \in {<<>>, <<CTE("c", Plain(<<>>, MatchCall(M1)))>>, <<CTE("c", SetOp)>>},
        t \in {MatchCall(M2), Base, ShowRef("pg1", "DESCRIBE")}}
    \cup {SelectStatement(CTENode(OtherNode("SET_OPERATION_NODE")))}

SelectStatements ==
    PlainSelects \cup ShowSelects \cup CteNodeSelects \cup {SetOp, RecursiveCte}

DropTypes == {"PROPERTY_GRAPH", "TABLE_ENTRY", "VIEW_ENTRY"}

OtherStatementTypes ==
    {"UPDATE_STATEMENT", "DELETE_STATEMENT", "PRAGMA_STATEMENT", "INVALID_STATEMENT"}

Leaves ==
    SelectStatements
    \cup {CreateStatement(CreatePropertyGraphInfo), CreateStatement(CreateViewInfo),
          CreateStatement(CreateTableInfo(NullPtr)), InsertStatement(NullPtr)}
    \cup {DropStatement(d) : d \in DropTypes}
    \cup {CopyStatement(SelectNode(<<>>, t)) : t \in TableRefs}
    \cup {CopyStatement(OtherNode("SET_OPERATION_NODE")), CopyStatement(NullPtr)}
    \cup {OtherStatement(k) : k \in OtherStatementTypes}

\* The selects put inside INSERT and EXPLAIN.
InnerSelects ==
    {Plain(<<>>, MatchCall(M1)), Plain(<<>>, Base),
     Plain(<<>>, JoinRef(MatchCall(M1), EmptyFrom)),
     Plain(<<CTE("c", SetOp)>>, Base),
     Plain(<<>>, ShowRef("pg1", "SUMMARY")),
     Plain(<<>>, ShowRef("pg1", "DESCRIBE")),
     Plain(<<>>, ShowRef("pg1", "SHOW_FROM"))}

Wrapped ==
    {CreateStatement(CreateTableInfo(q)) : q \in SelectStatements}
    \cup {InsertStatement(q) : q \in InnerSelects}
    \cup {ExplainStatement(x) : x \in (Leaves \ SelectStatements) \cup InnerSelects}

Statements ==
    Leaves \cup Wrapped
    \cup {ExplainStatement(x) :
            x \in {ExplainStatement(DropStatement("PROPERTY_GRAPH")),
                   CreateStatement(CreateTableInfo(Plain(<<>>, MatchCall(M1)))),
                   InsertStatement(Plain(<<>>, ShowRef("pg1", "SUMMARY")))}}

\* A parse_data that is not a DuckPGQParseData.
NoParseData == [type |-> "NO_PARSE_DATA"]

----------------------------------------------------------------------------
\* The session

NoOutcome == [error |-> "none", error_arg |-> "", result |-> EmptyResult]

Init ==
    /\ match_index = 0
    /\ transform_expression = <<>>
    /\ call = "none"
    /\ arg = NullPtr
    /\ tree = NullPtr
    /\ outcome = NoOutcome
    /\ pre = State(0, <<>>)

\* What a call leaves behind.
Ends(name, given, r) ==
    /\ r.st.match_index <= MaxMatchIndex
    /\ match_index' = r.st.match_index
    /\ transform_expression' = r.st.transform_expression
    /\ call' = name
    /\ arg' = given
    /\ tree' = r.tree
    /\ outcome' = [error |-> r.error, error_arg |-> r.error_arg, result |-> r.result]
    /\ pre' = State(match_index, transform_expression)

\* duckpgq_plan: the parse data is installed in the state and cast; its
\* statement goes to duckpgq_handle_statement.
duckpgq_plan ==
    \E parse_data \in Statements \cup {NoParseData} :
        \E ub \in UndefinedOutcomes :
            LET st == State(match_index, transform_expression)
            IN  Ends("duckpgq_plan", parse_data,
                     IF parse_data = NoParseData
                     THEN Throw(parse_data, st, "MissingParseData", "")
                     ELSE duckpgq_handle_statement(parse_data, st, ub))

\* A caller outside this file walks a select statement.
FindSelectStatement ==
    \E statement \in SelectStatements :
        Ends("duckpgq_find_select_statement", statement,
             duckpgq_find_select_statement(
                 statement, State(match_index, transform_expression)))

\* A caller outside this file walks a table reference.
FindMatchFunction ==
    \E table_ref \in TableRefs :
        Ends("duckpgq_find_match_function", table_ref,
             duckpgq_find_match_function(
                 table_ref, State(match_index, transform_expression)))

Next == duckpgq_plan \/ FindSelectStatement \/ FindMatchFunction

Spec == Init /\ [][Next]_vars

----------------------------------------------------------------------------
\* Properties

\* The last step dispatched a statement.
Dispatched == call = "duckpgq_plan" /\ arg # NoParseData

\* The last step left the session state as it found it.
StateUnchanged ==
    /\ match_index = pre.match_index
    /\ transform_expression = pre.transform_expression

IsMatchCall(table_ref) ==
    /\ table_ref.type = "TABLE_FUNCTION"
    /\ table_ref.function.function_name = "duckpgq_match"
    /\ Len(table_ref.function.children) = 1
    /\ table_ref.function.children[1].class = "MATCH"

\* The table function call carries the literal index and nothing else.
IsIndexedCall(table_ref, index) ==
    /\ table_ref.type = "TABLE_FUNCTION"
    /\ table_ref.function.function_name = "duckpgq_match"
    /\ table_ref.function.children = <<ConstantExpression(index)>>

\* C1: the keys of transform_expression are exactly 0 .. match_index-1, the
\* counter never decreases, every entry stored before a step is still there
\* unchanged after it, and the entries a step adds are the match expressions
\* it took out of the tree.
C1_IndicesDense ==
    /\ DOMAIN transform_expression = 0 .. (match_index - 1)
    /\ pre.match_index <= match_index
    /\ \A k \in DOMAIN pre.transform_expression :
          /\ k \in DOMAIN transform_expression
          /\ transform_expression[k] = pre.transform_expression[k]
    /\ \A k \in pre.match_index .. (match_index - 1) :
          transform_expression[k].class = "MATCH"

\* A dispatch that failed after two rewrites, in a session with earlier ones.
C1_Witness ==
    /\ Dispatched
    /\ outcome.error # "none"
    /\ pre.match_index >= 1
    /\ match_index = pre.match_index + 2

\* C2: duckpgq_find_match_function on a duckpgq_match call whose sole child is
\* a match expression returns normally; the call node then has the match
\* expression's alias and exactly one child, the integer literal equal to
\* match_index before the call, and transform_expression holds the original
\* match expression at that index.
C2_RewriteShape ==
    (call = "duckpgq_find_match_function" /\ IsMatchCall(arg)) =>
        /\ outcome.error = "none"
        /\ tree.type = "TABLE_FUNCTION"
        /\ tree.alias = arg.function.children[1].alias
        /\ tree.function.function_name = "duckpgq_match"
        /\ Len(tree.function.children) = 1
        /\ tree.function.children[1] = ConstantExpression(pre.match_index)
        /\ pre.match_index \in DOMAIN transform_expression
        /\ transform_expression[pre.match_index] = arg.function.children[1]
        /\ match_index = pre.match_index + 1

C2_Witness ==
    /\ call = "duckpgq_find_match_function"
    /\ IsMatchCall(arg)
    /\ arg.function.children[1] = M2
    /\ pre.match_index = 2

\* The select is a plain select with one CTE whose body's FROM target is a
\* match call, and its own FROM target is a match call too.
IsCteThenOuter(statement) ==
    /\ statement.type = "SELECT_STATEMENT"
    /\ statement.node.type = "SELECT_NODE"
    /\ Len(statement.node.cte_map) = 1
    /\ statement.node.cte_map[1].query.node.type = "SELECT_NODE"
    /\ IsMatchCall(statement.node.cte_map[1].query.node.from_table)
    /\ IsMatchCall(statement.node.from_table)

\* C3: indices follow the traversal. A join of two match calls gives the left
\* call the index match_index had and the right call the next one, each match
\* expression stored under the index of its own side. A plain select with a
\* CTE over a match call and a match call as its own FROM target is rewritten
\* exactly twice, the CTE's call first.
C3_TraversalOrder ==
    /\ (/\ call = "duckpgq_find_match_function"
        /\ arg.type = "JOIN"
        /\ IsMatchCall(arg.left)
        /\ IsMatchCall(arg.right)) =>
            /\ outcome.error = "none"
            /\ match_index = pre.match_index + 2
            /\ IsIndexedCall(tree.left, pre.match_index)
            /\ IsIndexedCall(tree.right, pre.match_index + 1)
            /\ tree.left.alias = arg.left.function.children[1].alias
            /\ tree.right.alias = arg.right.function.children[1].alias
            /\ transform_expression[pre.match_index] = arg.left.function.children[1]
            /\ transform_expression[pre.match_index + 1] =
                   arg.right.function.children[1]
    /\ (/\ call \in {"duckpgq_find_select_statement", "duckpgq_plan"}
        /\ IsCteThenOuter(arg)) =>
            /\ match_index = pre.match_index + 2
            /\ IsIndexedCall(tree.node.cte_map[1].query.node.from_table,
                             pre.match_index)
            /\ IsIndexedCall(tree.node.from_table, pre.match_index + 1)
            /\ transform_expression[pre.match_index] =
                   arg.node.cte_map[1].query.node.from_table.function.children[1]
            /\ transform_expression[pre.match_index + 1] =
                   arg.node.from_table.function.children[1]

\* A join of two different match calls, walked in a session with an earlier
\* rewrite.
C3_Witness ==
    /\ call = "duckpgq_find_match_function"
    /\ arg = JoinRef(MatchCall(M2), MatchCall(M1))
    /\ pre.match_index = 1
    /\ match_index = 3

\* C4: a dispatched DROP statement returns the directive of the drop function,
\* transactional and with a query result, and leaves the session state
\* unchanged, whatever is dropped and whatever the state was.
C4_DropAlwaysDirective ==
    (Dispatched /\ arg.type = "DROP_STATEMENT") =>
        /\ outcome.error = "none"
        /\ outcome.result.function = "DropPropertyGraphFunction"
        /\ outcome.result.requires_valid_transaction = TRUE
        /\ outcome.result.return_type = "QUERY_RESULT"
        /\ StateUnchanged

C4_Witness ==
    /\ Dispatched
    /\ arg = DropStatement("TABLE_ENTRY")
    /\ outcome.error = "none"
    /\ pre.match_index = 2

RECURSIVE ContainsMatch(_)
\* The table reference is, or holds in a join or in the FROM target of a
\* subquery, a graph-match call.
ContainsMatch(table_ref) ==
    CASE table_ref.type = "TABLE_FUNCTION" -> IsMatchCall(table_ref)
      [] table_ref.type = "JOIN" ->
            ContainsMatch(table_ref.left) \/ ContainsMatch(table_ref.right)
      [] table_ref.type = "SUBQUERY" ->
            /\ table_ref.subquery.node.type = "SELECT_NODE"
            /\ ContainsMatch(table_ref.subquery.node.from_table)
      [] OTHER -> FALSE

\* The last step dispatched CREATE TABLE AS over a select whose FROM clause
\* contains a graph-match call.
CreateAsOverMatch ==
    /\ Dispatched
    /\ arg.type = "CREATE_STATEMENT"
    /\ arg.info.kind = "TABLE"
    /\ arg.info.query # NullPtr
    /\ arg.info.query.type = "SELECT_STATEMENT"
    /\ arg.info.query.node.type = "SELECT_NODE"
    /\ ContainsMatch(arg.info.query.node.from_table)

\* The dispatch of the select alone, from the state the last step started in.
BareSelect == duckpgq_handle_statement(arg.info.query, pre, "Crash")

\* C5 as claimed: CREATE TABLE AS over a select with a graph-match call in its
\* FROM clause and the select alone both fail with MustUseBindEntryPoint and
\* leave the same tree and the same session state.
C5_AsClaimed ==
    CreateAsOverMatch =>
        /\ outcome.error = "MustUseBindEntryPoint"
        /\ BareSelect.error = "MustUseBindEntryPoint"
        /\ tree.info.query = BareSelect.tree
        /\ State(match_index, transform_expression) = BareSelect.st

\* C5, amended: CREATE TABLE AS over such a select and the select alone end
\* the same way: both fail with the same error, which is MustUseBindEntryPoint
\* when the walk of the select completes and the error that stopped the walk
\* otherwise, and both leave the same tree for the select and the same
\* match_index and transform_expression.
C5_SameOutcome ==
    CreateAsOverMatch =>
        LET walk == duckpgq_find_select_statement(arg.info.query, pre)
        IN  /\ outcome.error # "none"
            /\ outcome.error = BareSelect.error
            /\ outcome.error_arg = BareSelect.error_arg
            /\ outcome.error = IF walk.error = "none"
                               THEN "MustUseBindEntryPoint"
                               ELSE walk.error
            /\ outcome.error \in
                  {"MustUseBindEntryPoint", "UnsupportedConstruct", "InternalError"}
            /\ tree.type = "CREATE_STATEMENT"
            /\ tree.info.query = BareSelect.tree
            /\ tree.info.query = walk.tree
            /\ State(match_index, transform_expression) = BareSelect.st

\* CREATE TABLE AS over a join of a match call and an empty FROM: the left
\* side is rewritten before the walk fails.
C5_Witness ==
    /\ CreateAsOverMatch
    /\ arg.info.query.node.from_table = JoinRef(MatchCall(M1), EmptyFrom)
    /\ outcome.error = "UnsupportedConstruct"
    /\ match_index = pre.match_index + 1

\* The last step dispatched a plain select over a show/describe reference.
ShowSelectDispatched ==
    /\ Dispatched
    /\ arg.type = "SELECT_STATEMENT"
    /\ arg.node.type = "SELECT_NODE"
    /\ arg.node.from_table.type = "SHOW_REF"

\* C6: a dispatched plain select over a show/describe reference ends as its
\* mode says: SUMMARY returns the summarize directive with the target name as
\* its only parameter, DESCRIBE the describe directive with no parameter, any
\* other mode fails with UnrecognizedMode; both directives are transactional
\* with a query result; the CTEs are not visited and the session state is
\* unchanged.
C6_ShowByMode ==
    ShowSelectDispatched =>
        LET mode == arg.node.from_table.show_type
        IN  /\ tree = arg
            /\ StateUnchanged
            /\ mode = "SUMMARY" =>
                  /\ outcome.error = "none"
                  /\ outcome.result =
                        [function |-> "SummarizePropertyGraphFunction",
                         parameters |-> <<arg.node.from_table.table_name>>,
                         requires_valid_transaction |-> TRUE,
                         return_type |-> "QUERY_RESULT"]
            /\ mode = "DESCRIBE" =>
                  /\ outcome.error = "none"
                  /\ outcome.result =
                        [function |-> "DescribePropertyGraphFunction",
                         parameters |-> <<>>,
                         requires_valid_transaction |-> TRUE,
                         return_type |-> "QUERY_RESULT"]
            /\ mode \notin {"SUMMARY", "DESCRIBE"} =>
                  /\ outcome.error = "UnrecognizedMode"
                  /\ outcome.error_arg = mode

\* A describe select that carries a CTE over a match call.
C6_Witness ==
    /\ ShowSelectDispatched
    /\ arg.node.from_table.show_type = "DESCRIBE"
    /\ Len(arg.node.cte_map) = 1
    /\ IsMatchCall(arg.node.cte_map[1].query.node.from_table)
    /\ pre.match_index = 1

HandledTypes ==
    {"SELECT_STATEMENT", "CREATE_STATEMENT", "DROP_STATEMENT",
     "EXPLAIN_STATEMENT", "COPY_STATEMENT", "INSERT_STATEMENT"}

\* C7 as claimed: a dispatched statement of a handled kind never ends in
\* NotImplemented, and a statement of any other kind always does, the error
\* naming the kind.
C7_NotImplementedOnlyUnhandled ==
    Dispatched =>
        IF arg.type \in HandledTypes
        THEN outcome.error # "NotImplemented"
        ELSE outcome.error = "NotImplemented" /\ outcome.error_arg = arg.type

\* The last step dispatched a COPY whose source is a select node.
CopyDispatched ==
    /\ Dispatched
    /\ arg.type = "COPY_STATEMENT"
    /\ arg.select_statement.type = "SELECT_NODE"

\* The walk of the copy source's FROM target from the state the step started in.
CopyWalk == duckpgq_find_match_function(arg.select_statement.from_table, pre)

C9_NoRewriteNoMutation ==
    call = "duckpgq_find_match_function" =>
        /\ (\/ arg.type = "BASE_TABLE"
            \/ (/\ arg.type = "TABLE_FUNCTION"
                /\ arg.function.function_name # "duckpgq_match")) =>
              /\ outcome.error = "none"
              /\ tree = arg
              /\ StateUnchanged
        /\ arg.type \notin {"TABLE_FUNCTION", "SUBQUERY", "JOIN", "BASE_TABLE"} =>
              /\ outcome.error = "UnsupportedConstruct"
              /\ tree = arg
              /\ StateUnchanged

\* A base table walked in a session that has rewrites behind it.
C9_Witness ==
    /\ call = "duckpgq_find_match_function"
    /\ arg.type = "BASE_TABLE"
    /\ outcome.error = "none"
    /\ pre.match_index = 2

\* The select node the walk of a statement visits, if it visits one.
WalkedNode(statement) ==
    IF statement.node.type = "CTE_NODE" THEN statement.node.child ELSE statement.node

HasPlainBody(cte) == cte.query.node.type = "SELECT_NODE"

\* The statement with the CTE entries dropped whose body is not a plain select.
WithoutOtherBodies(statement) ==
    IF statement.node.type = "CTE_NODE"
    THEN [statement EXCEPT
            !.node.child.cte_map = SelectSeq(statement.node.child.cte_map, HasPlainBody)]
    ELSE [statement EXCEPT
            !.node.cte_map = SelectSeq(statement.node.cte_map, HasPlainBody)]

\* C10 as claimed: in both branches of duckpgq_find_select_statement, CTE
\* entries whose body is not a plain select are skipped without error and
\* without effect: the call ends as it does on the statement without those
\* entries, and leaves them as they were.
C10_OtherBodiesSkipped ==
    (/\ call = "duckpgq_find_select_statement"
     /\ WalkedNode(arg).type = "SELECT_NODE"
     /\ WalkedNode(arg).from_table.type # "SHOW_REF") =>
        LET skipping == duckpgq_find_select_statement(WithoutOtherBodies(arg), pre)
        IN  /\ outcome.error = skipping.error
            /\ State(match_index, transform_expression) = skipping.st
            /\ WithoutOtherBodies(tree) = skipping.tree
            /\ \A i \in 1 .. Len(WalkedNode(arg).cte_map) :
                  ~HasPlainBody(WalkedNode(arg).cte_map[i]) =>
                      WalkedNode(tree).cte_map[i] = WalkedNode(arg).cte_map[i]

=============================================================================
